---------------------------- MODULE Spec2Model ----------------------------
(***************************************************************************)
(* A model of the serialport package: the Config validator, the two        *)
(* platform translators (the Linux termios one and the Windows DCB one),   *)
(* and the life cycle of a SerialPort over the operating system's handle   *)
(* table.  The operating system is modelled by the set of open handles,    *)
(* the live native configuration of one serial device and the lengths of   *)
(* the device driver's input and output queues.                            *)
(***************************************************************************)
EXTENDS Integers, Sequences, FiniteSets, TLC

VARIABLES
    build,        \* the platform the package was compiled for
    openHandles,  \* the OS handle table: the native handles that are open
    native,       \* the device's live native configuration
    ports,        \* the *SerialPort values Open has handed to the caller
    arg,          \* the Config the caller holds: the argument of its Open/SetConfig/checkConfigParam
    last,         \* what the latest operation returned
    rx,           \* the driver's input queue: bytes received and not yet read
    tx,           \* the driver's output queue: bytes written and not yet transmitted
    waiting,      \* the Read the caller is blocked in: its port and len(b)
    flushed       \* history: what became of the bytes queued before the latest Flush

vars == <<build, openHandles, native, ports, arg, last, rx, tx, waiting, flushed>>
queueVars == <<rx, tx, waiting, flushed>>

Builds == {"posix", "windows"}

(***************************************************************************)
(* Bounds of the model.                                                    *)
(***************************************************************************)
MaxPorts == 2       \* SerialPort values the caller may hold
MaxLen == 1         \* len(b) of a Read or Write buffer

(***************************************************************************)
(* Program constants.                                                      *)
(***************************************************************************)
\* Config enumerations (the package's constants DB5.., SB1.., PN..).
DB5 == 5
DB6 == 6
DB7 == 7
DB8 == 8
SB1 == 1
SB1_5 == 15
SB2 == 2
PN == 0
PO == 1
PE == 2
PM == 3
PS == 4

\* golang.org/x/sys/unix, linux: termios flag bits.
CS5 == 0
CS6 == 16
CS7 == 32
CS8 == 48
CSTOPB == 64
CREAD == 128
PARENB == 256
PARODD == 512
CLOCAL == 2048
BOTHER == 4096
INPCK == 16
FlagBits == 32      \* Termios.Cflag and Termios.Iflag are uint32

\* deciseconds = 100 ms, in milliseconds.
deciseconds == 100

\* The first descriptor unix.Open hands out (0, 1, 2 are the standard streams).
FirstHandle == 3
\* windows.InvalidHandle, what CreateFile returns on failure.
InvalidHandle == -1
\* The model's value for "Open acquired no handle".
NoHandle == InvalidHandle - 1

Limb == 2^16        \* wide integers are held in base-2^16 digits
Byte == 2^8         \* the range of a uint8

\* The native handles: as many as the caller may hold ports.
Handles == FirstHandle..(FirstHandle + MaxPorts - 1)

(***************************************************************************)
(* Bit operations on flag words.                                           *)
(***************************************************************************)
RECURSIVE BitAndN(_, _, _)
BitAndN(x, y, n) ==
    IF n = 0 THEN 0
    ELSE (IF x % 2 = 1 /\ y % 2 = 1 THEN 1 ELSE 0)
         + 2 * BitAndN(x \div 2, y \div 2, n - 1)

RECURSIVE BitOrN(_, _, _)
BitOrN(x, y, n) ==
    IF n = 0 THEN 0
    ELSE (IF x % 2 = 1 \/ y % 2 = 1 THEN 1 ELSE 0)
         + 2 * BitOrN(x \div 2, y \div 2, n - 1)

BitAnd(x, y) == BitAndN(x, y, FlagBits)
BitOr(x, y) == BitOrN(x, y, FlagBits)

(***************************************************************************)
(* time.Duration.  A Duration is a signed 64-bit count of nanoseconds; the *)
(* model holds its sign and its magnitude, the magnitude as whole          *)
(* milliseconds in three base-2^16 digits (w2 w1 w0) plus a remainder of   *)
(* microseconds, so that values beyond 2^32 ms are representable.          *)
(***************************************************************************)
Dur(neg, w2, w1, w0, us) == [neg |-> neg, w2 |-> w2, w1 |-> w1, w0 |-> w0, us |-> us]
Ms(n) == Dur(FALSE, 0, n \div Limb, n % Limb, 0)
NegMs(n) == Dur(TRUE, 0, n \div Limb, n % Limb, 0)
Us(n) == Dur(FALSE, 0, 0, 0, n)
TwoTo32Ms == Dur(FALSE, 1, 0, 0, 0)

DurIsZero(d) == d.w2 = 0 /\ d.w1 = 0 /\ d.w0 = 0 /\ d.us = 0
\* whole milliseconds of |d| are zero
MsIsZero(d) == d.w2 = 0 /\ d.w1 = 0 /\ d.w0 = 0

\* uint32(d.Milliseconds()): Milliseconds truncates toward zero, the
\* conversion keeps the low 32 bits of the two's complement; the result is
\* the pair of base-2^16 digits <<high, low>>.
U32(h, l) == [h |-> h, l |-> l]
U32Zero == U32(0, 0)
MaxUint32 == U32(Limb - 1, Limb - 1)
Uint32OfMilliseconds(d) ==
    IF ~d.neg THEN U32(d.w1, d.w0)
    ELSE LET borrow == IF d.w0 = 0 THEN 0 ELSE 1
         IN  U32((Limb - d.w1 - borrow) % Limb, (Limb - d.w0) % Limb)

\* time.Duration(u) * time.Millisecond for a uint32 u.
DurOfU32Ms(u) == Dur(FALSE, 0, u.h, u.l, 0)

\* int64(d / deciseconds): the quotient of the magnitude by long division,
\* digit by digit; the sign is that of d (Go truncates toward zero).
DeciQuot(d) ==
    LET q2 == d.w2 \div deciseconds
        t1 == (d.w2 % deciseconds) * Limb + d.w1
        q1 == t1 \div deciseconds
        t0 == (t1 % deciseconds) * Limb + d.w0
        q0 == t0 \div deciseconds
    IN  [neg |-> d.neg, w2 |-> q2, w1 |-> q1, w0 |-> q0]

\* uint8(q): the low 8 bits of the two's complement of q.
Uint8Of(q) ==
    IF ~q.neg THEN q.w0 % Byte
    ELSE (Byte - (q.w0 % Byte)) % Byte

(***************************************************************************)
(* Config.                                                                 *)
(***************************************************************************)
Cfg(br, db, sb, pa, to) ==
    [BaudRate |-> br, DataBits |-> db, StopBits |-> sb, Parity |-> pa, Timeout |-> to]

\* The zero Config{} an erroring Config() returns.
ZeroConfig == Cfg(0, 0, 0, 0, Ms(0))

\* DefaultConfig(): 115200 bps, 8 data bits, 1 stop bit, no parity, 100 ms.
DefaultConfig == Cfg(115200, DB8, SB1, PN, Ms(100))

NoError == "nil"

(***************************************************************************)
(* The Config validator.  It returns the first failing check; the model's  *)
(* error value is the name of the field the error message names.           *)
(***************************************************************************)
\* checkConfigParamLinux with the StopBits check moved before the DataBits check.
checkConfigParamLinuxStopBitsFirst(cfg) ==
    IF cfg.BaudRate < 0 THEN "BaudRate"
    ELSE IF cfg.StopBits # SB1 /\ cfg.StopBits # SB2 THEN "StopBits"
    ELSE IF cfg.DataBits # DB5 /\ cfg.DataBits # DB6 /\ cfg.DataBits # DB7 /\ cfg.DataBits # DB8
         THEN "DataBits"
    ELSE IF cfg.Parity # PN /\ cfg.Parity # PO /\ cfg.Parity # PE THEN "Parity"
    ELSE NoError

checkConfigParamLinux(cfg) ==
    IF cfg.BaudRate < 0 THEN "BaudRate"
    ELSE IF cfg.DataBits # DB5 /\ cfg.DataBits # DB6 /\ cfg.DataBits # DB7 /\ cfg.DataBits # DB8
         THEN "DataBits"
    ELSE IF cfg.StopBits # SB1 /\ cfg.StopBits # SB2 THEN "StopBits"
    ELSE IF cfg.Parity # PN /\ cfg.Parity # PO /\ cfg.Parity # PE THEN "Parity"
    ELSE NoError

\* The lookup tables of the Windows translator.
dcbByteSizeMap == (DB5 :> 5) @@ (DB6 :> 6) @@ (DB7 :> 7) @@ (DB8 :> 8)
dcbStopBitsMap == (SB1 :> 0) @@ (SB1_5 :> 1) @@ (SB2 :> 2)
dcbParityMap == (PN :> 0) @@ (PO :> 1) @@ (PE :> 2) @@ (PM :> 3) @@ (PS :> 4)

\* checkConfigParamWindows with the Linux build's StopBits check (no SB1_5).
checkConfigParamWindowsLinuxStopBits(cfg) ==
    IF cfg.BaudRate < 0 THEN "BaudRate"
    ELSE IF cfg.DataBits \notin DOMAIN dcbByteSizeMap THEN "DataBits"
    ELSE IF cfg.StopBits # SB1 /\ cfg.StopBits # SB2 THEN "StopBits"
    ELSE IF cfg.Parity \notin DOMAIN dcbParityMap THEN "Parity"
    ELSE IF ~DurIsZero(cfg.Timeout) /\ MsIsZero(cfg.Timeout) THEN "Timeout"
    ELSE NoError

checkConfigParamWindows(cfg) ==
    IF cfg.BaudRate < 0 THEN "BaudRate"
    ELSE IF cfg.DataBits \notin DOMAIN dcbByteSizeMap THEN "DataBits"
    ELSE IF cfg.StopBits \notin DOMAIN dcbStopBitsMap THEN "StopBits"
    ELSE IF cfg.Parity \notin DOMAIN dcbParityMap THEN "Parity"
    ELSE IF ~DurIsZero(cfg.Timeout) /\ MsIsZero(cfg.Timeout) THEN "Timeout"
    ELSE NoError

checkConfigParam(b, cfg) ==
    IF b = "posix" THEN checkConfigParamLinux(cfg) ELSE checkConfigParamWindows(cfg)

(***************************************************************************)
(* The Linux translator: Config -> termios and back.                       *)
(***************************************************************************)
Termios(iflag, cflag, ispeed, ospeed, vmin, vtime) ==
    [Iflag |-> iflag, Cflag |-> cflag, Ispeed |-> ispeed, Ospeed |-> ospeed,
     VMIN |-> vmin, VTIME |-> vtime]

\* uint8(cfg.Timeout / deciseconds)
TimeoutUnits(cfg) == Uint8Of(DeciQuot(cfg.Timeout))

\* The termios SetConfig builds from a Config that passed the validator.
\* uint32(cfg.BaudRate) keeps the value: the rates of the model are below 2^31.
termios2Of(cfg) ==
    LET base == BitOr(BitOr(CREAD, CLOCAL), BOTHER)
        size == CASE cfg.DataBits = DB5 -> BitOr(base, CS5)
                  [] cfg.DataBits = DB6 -> BitOr(base, CS6)
                  [] cfg.DataBits = DB7 -> BitOr(base, CS7)
                  [] cfg.DataBits = DB8 -> BitOr(base, CS8)
                  [] OTHER -> base
        stop == IF cfg.StopBits = SB2 THEN BitOr(size, CSTOPB) ELSE size
        cflag == CASE cfg.Parity = PO -> BitOr(stop, BitOr(PARENB, PARODD))
                   [] cfg.Parity = PE -> BitOr(stop, PARENB)
                   [] OTHER -> stop
        iflag == IF cfg.Parity = PO \/ cfg.Parity = PE THEN INPCK ELSE 0
        t == TimeoutUnits(cfg)
    IN  IF t > 0
        THEN Termios(iflag, cflag, cfg.BaudRate, cfg.BaudRate, 0, t)
        ELSE Termios(iflag, cflag, cfg.BaudRate, cfg.BaudRate, 1, 0)

\* The Config that Config() builds from the termios it read.
ConfigOfTermios(termios) ==
    Cfg(termios.Ospeed,
        IF BitAnd(termios.Cflag, CS5) > 0 THEN DB5
        ELSE IF BitAnd(termios.Cflag, CS6) > 0 THEN DB6
        ELSE IF BitAnd(termios.Cflag, CS7) > 0 THEN DB7
        ELSE IF BitAnd(termios.Cflag, CS8) > 0 THEN DB8
        ELSE 0,
        IF BitAnd(termios.Cflag, CSTOPB) = 0 THEN SB1 ELSE SB2,
        IF BitAnd(termios.Cflag, PARENB) = 0 THEN PN
        ELSE IF BitAnd(termios.Cflag, PARODD) > 0 THEN PO ELSE PE,
        Ms(termios.VTIME * deciseconds))

(***************************************************************************)
(* The Windows translator: Config -> DCB + COMMTIMEOUTS and back.          *)
(***************************************************************************)
DCB(baud, bytesize, parity, stopbits) ==
    [BaudRate |-> baud, ByteSize |-> bytesize, Parity |-> parity, StopBits |-> stopbits]

CommTimeouts(rit, rttm, rttc, wttm, wttc) ==
    [ReadIntervalTimeout |-> rit, ReadTotalTimeoutMultiplier |-> rttm,
     ReadTotalTimeoutConstant |-> rttc, WriteTotalTimeoutMultiplier |-> wttm,
     WriteTotalTimeoutConstant |-> wttc]

dcbOf(cfg) ==
    DCB(cfg.BaudRate, dcbByteSizeMap[cfg.DataBits], dcbParityMap[cfg.Parity],
        dcbStopBitsMap[cfg.StopBits])

commTimeoutsOf(cfg) ==
    LET timeoutMs == Uint32OfMilliseconds(cfg.Timeout)
    IN  IF timeoutMs # U32Zero
        THEN CommTimeouts(MaxUint32, MaxUint32, timeoutMs, U32Zero, timeoutMs)
        ELSE CommTimeouts(U32Zero, U32Zero, U32Zero, U32Zero, U32Zero)

\* The key of m whose value is value, or value itself when there is none
\* (the tables are one-to-one, so the key found does not depend on the
\* order in which the map is walked).
findMapKey(m, value) ==
    IF \E k \in DOMAIN m : m[k] = value
    THEN CHOOSE k \in DOMAIN m : m[k] = value
    ELSE value

ConfigOfDCB(dcb, timeouts) ==
    Cfg(dcb.BaudRate,
        findMapKey(dcbByteSizeMap, dcb.ByteSize),
        findMapKey(dcbStopBitsMap, dcb.StopBits),
        findMapKey(dcbParityMap, dcb.Parity),
        DurOfU32Ms(timeouts.ReadTotalTimeoutConstant))

(***************************************************************************)
(* SetConfig and Config as functions of the device's native configuration. *)
(* valid: the port's handle is open in the OS handle table; ok1, ok2: the  *)
(* OS carries out the first and the second native call on an open handle   *)
(* (a native call on a handle that is not open always fails).              *)
(***************************************************************************)
Outcome(err, nat, ncalls) == [err |-> err, native |-> nat, ncalls |-> ncalls]

NativeErr(valid) == IF valid THEN "EIO" ELSE "EBADF"

\* SetConfigLinux with the validator consulted after the ioctl instead of before.
SetConfigLinuxLateCheck(cfg, nat, valid, ok1) ==
    LET err == checkConfigParamLinux(cfg)
    IN  IF ~(valid /\ ok1) THEN Outcome(NativeErr(valid), nat, 1)
        ELSE IF err # NoError THEN Outcome(err, termios2Of(cfg), 1)
        ELSE Outcome(NoError, termios2Of(cfg), 1)

SetConfigLinux(cfg, nat, valid, ok1) ==
    LET err == checkConfigParamLinux(cfg)
    IN  IF err # NoError THEN Outcome(err, nat, 0)
        ELSE IF valid /\ ok1 THEN Outcome(NoError, termios2Of(cfg), 1)
        ELSE Outcome(NativeErr(valid), nat, 1)

SetConfigWindows(cfg, nat, valid, ok1, ok2) ==
    LET err == checkConfigParamWindows(cfg)
    IN  IF err # NoError THEN Outcome(err, nat, 0)
        ELSE IF ~(valid /\ ok1) THEN Outcome(NativeErr(valid), nat, 1)
        ELSE IF ~ok2
             THEN Outcome(NativeErr(valid), [nat EXCEPT !.dcb = dcbOf(cfg)], 2)
        ELSE Outcome(NoError, [dcb |-> dcbOf(cfg), timeouts |-> commTimeoutsOf(cfg)], 2)

SetConfigOutcome(b, cfg, nat, valid, ok1, ok2) ==
    IF b = "posix" THEN SetConfigLinux(cfg, nat, valid, ok1)
    ELSE SetConfigWindows(cfg, nat, valid, ok1, ok2)

\* Config(): [err, cfg]
ConfigOutcome(b, nat, valid) ==
    IF ~valid THEN [err |-> "EBADF", cfg |-> ZeroConfig]
    ELSE IF b = "posix" THEN [err |-> NoError, cfg |-> ConfigOfTermios(nat)]
    ELSE [err |-> NoError, cfg |-> ConfigOfDCB(nat.dcb, nat.timeouts)]

(***************************************************************************)
(* The state.                                                              *)
(***************************************************************************)
\* The device's configuration before the package has touched it.
InitialNative(b) ==
    IF b = "posix" THEN Termios(0, BitOr(CS8, CREAD), 9600, 9600, 1, 0)
    ELSE [dcb |-> DCB(9600, 8, 0, 0),
          timeouts |-> CommTimeouts(U32Zero, U32Zero, U32Zero, U32Zero, U32Zero)]

\* A *SerialPort: its handle field, whether Open returned it with a nil
\* error, and whether the caller has called Close on it.
Port(h, opened, closed) == [fd |-> h, opened |-> opened, closed |-> closed]

\* What an operation returned: op, the port it was called on (its index in
\* ports; 0 for none), the error, the count n of Read/Write, the Config of
\* Config(), whether Open returned a non-nil *SerialPort, the handle Open
\* acquired, the native calls the operation made, whether the caller had
\* called Close on the port before the operation, and whether the operation
\* before it was a successful SetConfig on the same port.  len is len(b) of
\* a Read or Write (WithLen), 0 for the other operations.
Result(op, port, err, n, cfg, sp, acquired, ncalls, closedBefore, fresh) ==
    [op |-> op, port |-> port, err |-> err, n |-> n, cfg |-> cfg, sp |-> sp,
     acquired |-> acquired, ncalls |-> ncalls, closedBefore |-> closedBefore,
     fresh |-> fresh, len |-> 0]

WithLen(res, len) == [res EXCEPT !.len = len]

\* No Read is blocked.
NoRead == [port |-> 0, len |-> 0]

\* flushed: how many bytes at the head of each queue were queued before a
\* successful Flush, and whether such a byte has been returned by a Read
\* or transmitted since.
NothingFlushed == [rx |-> 0, tx |-> 0, read |-> FALSE, sent |-> FALSE]

Min(a, b) == IF a <= b THEN a ELSE b

\* The driver's queues hold as many bytes as the largest buffer.
QueueCap == MaxLen

Names == {"ttyS0", "nodev"}
Existing == {"ttyS0"}

Valid(i) == ports[i].fd \in openHandles

\* unix.Open returns the lowest descriptor that is not open.
LowestFree == CHOOSE h \in Handles \ openHandles :
                  \A g \in Handles \ openHandles : h <= g

(***************************************************************************)
(* Open.                                                                   *)
(***************************************************************************)
\* part_003: unix.Open, then SetConfig; Close when SetConfig failed.  The
\* named result sp is set before SetConfig, so it is returned either way.
OpenLinux(name, cfg, ok1) ==
    /\ build = "posix"
    /\ waiting = NoRead
    /\ IF name \notin Existing
       THEN /\ last' = Result("Open", 0, "ENOENT", 0, ZeroConfig, FALSE, NoHandle, 1, FALSE, FALSE)
            /\ UNCHANGED <<openHandles, native, ports>>
       ELSE /\ Len(ports) < MaxPorts
            /\ Handles \ openHandles # {}
            /\ LET fd == LowestFree
                   out == SetConfigLinux(cfg, native, TRUE, ok1)
               IN  /\ openHandles' = IF out.err = NoError THEN openHandles \cup {fd}
                                     ELSE openHandles \ {fd}
                   /\ native' = out.native
                   /\ ports' = Append(ports, Port(fd, out.err = NoError, FALSE))
                   /\ last' = Result("Open", Len(ports) + 1, out.err, 0, ZeroConfig, TRUE, fd,
                                     out.ncalls + (IF out.err = NoError THEN 1 ELSE 2),
                                     FALSE, FALSE)
    /\ arg' = cfg
    /\ UNCHANGED <<build, queueVars>>

\* serialport_windows.go: open() returns a SerialPort around whatever
\* CreateFile returned, also when it failed; Open then calls SetConfig and
\* returns.  CreateFile opens the device exclusively (share mode 0).
OpenWindows(name, cfg, h, ok1, ok2) ==
    /\ build = "windows"
    /\ waiting = NoRead
    /\ Len(ports) < MaxPorts
    /\ IF name \notin Existing \/ openHandles # {}
       THEN /\ h = InvalidHandle
            /\ ok1 /\ ok2
            /\ last' = Result("Open", Len(ports) + 1,
                              IF name \notin Existing THEN "ENOENT" ELSE "EACCES",
                              0, ZeroConfig, TRUE, NoHandle, 2, FALSE, FALSE)
            /\ ports' = Append(ports, Port(InvalidHandle, FALSE, FALSE))
            /\ UNCHANGED <<openHandles, native>>
       ELSE /\ h \in Handles \ openHandles
            /\ LET out == SetConfigWindows(cfg, native, TRUE, ok1, ok2)
               IN  /\ openHandles' = openHandles \cup {h}
                   /\ native' = out.native
                   /\ ports' = Append(ports, Port(h, out.err = NoError, FALSE))
                   /\ last' = Result("Open", Len(ports) + 1, out.err, 0, ZeroConfig, TRUE, h,
                                     out.ncalls + 1, FALSE, FALSE)
    /\ arg' = cfg
    /\ UNCHANGED <<build, queueVars>>

(***************************************************************************)
(* The operations on a SerialPort; i is the port's index in ports.         *)
(***************************************************************************)
\* unix.Close / windows.CloseHandle on the port's handle field, whatever
\* that number now names in the handle table.  When the device's last
\* handle closes the driver empties its queues: unread input is dropped,
\* pending output is sent or dropped.
Close(i) ==
    /\ waiting = NoRead
    /\ last' = Result("Close", i, IF Valid(i) THEN NoError ELSE "EBADF", 0, ZeroConfig,
                      FALSE, NoHandle, 1, ports[i].closed, FALSE)
    /\ openHandles' = openHandles \ {ports[i].fd}
    /\ ports' = [ports EXCEPT ![i].closed = TRUE]
    /\ IF Valid(i) /\ openHandles' = {}
       THEN /\ rx' = 0 /\ tx' = 0
            /\ flushed' = [flushed EXCEPT !.rx = 0, !.tx = 0, !.sent = @ \/ flushed.tx > 0]
       ELSE UNCHANGED <<rx, tx, flushed>>
    /\ UNCHANGED <<build, native, arg, waiting>>

\* The count a failed native transfer leaves in n: unix.Read and unix.Write
\* return the system call's -1, the Windows build returns the untouched done.
FailedCount(b) == IF b = "posix" THEN -1 ELSE 0

\* What the native read waits for.  Linux (non-canonical input): VMIN > 0
\* waits for a byte with no limit of time, VMIN = 0 with VTIME > 0 waits for
\* a byte or for the timer, VMIN = 0 with VTIME = 0 does not wait.  Windows:
\* with all three read timeouts zero no timeout is used and ReadFile waits
\* until the buffer is full; the other block SetConfig writes (maximum
\* interval and multiplier, the timeout as constant) waits for a byte or
\* for the timeout.
ReadWaitLinux(termios) ==
    IF termios.VMIN > 0 THEN "byte"
    ELSE IF termios.VTIME > 0 THEN "byte or timer"
    ELSE "nothing"

ReadWaitWindows(timeouts) ==
    IF /\ timeouts.ReadIntervalTimeout = U32Zero
       /\ timeouts.ReadTotalTimeoutMultiplier = U32Zero
       /\ timeouts.ReadTotalTimeoutConstant = U32Zero
    THEN "full buffer"
    ELSE "byte or timer"

ReadWait(b, nat) ==
    IF b = "posix" THEN ReadWaitLinux(nat) ELSE ReadWaitWindows(nat.timeouts)

\* Whether the native read of len bytes returns with avail bytes queued
\* and none arriving any more (a timer that runs out lets it return).
ReadReady(wait, avail, len) ==
    \/ len = 0
    \/ wait \in {"nothing", "byte or timer"}
    \/ wait = "byte" /\ avail >= 1
    \/ wait = "full buffer" /\ avail >= len

\* The native read returns: it takes the head of the input queue.
Deliver(i, len) ==
    LET n == Min(rx, len)
        old == Min(n, flushed.rx)
    IN  /\ rx' = rx - n
        /\ flushed' = [flushed EXCEPT !.rx = @ - old, !.read = @ \/ old > 0]
        /\ last' = WithLen(Result("Read", i, NoError, n, ZeroConfig, FALSE, NoHandle, 1,
                                  ports[i].closed, FALSE), len)

\* Read(b): n is the count it returns when it returns at once; otherwise
\* the caller stays in the native read.
Read(i, len, n) ==
    /\ waiting = NoRead
    /\ IF ~Valid(i)
       THEN /\ n = 0
            /\ last' = WithLen(Result("Read", i, "EBADF", FailedCount(build), ZeroConfig,
                                      FALSE, NoHandle, 1, ports[i].closed, FALSE), len)
            /\ UNCHANGED <<rx, waiting, flushed>>
       ELSE IF ReadReady(ReadWait(build, native), rx, len)
       THEN /\ n = Min(rx, len)
            /\ Deliver(i, len)
            /\ UNCHANGED waiting
       ELSE /\ n = 0
            /\ waiting' = [port |-> i, len |-> len]
            /\ UNCHANGED <<last, rx, flushed>>
    /\ UNCHANGED <<build, openHandles, native, ports, arg, tx>>

\* The Read the caller is blocked in returns.
ReadReturn ==
    /\ waiting # NoRead
    /\ ReadReady(ReadWait(build, native), rx, waiting.len)
    /\ Deliver(waiting.port, waiting.len)
    /\ waiting' = NoRead
    /\ UNCHANGED <<build, openHandles, native, ports, arg, tx>>

\* Write(b): the driver queues the n bytes it accepts.
Write(i, len, n) ==
    /\ waiting = NoRead
    /\ IF Valid(i)
       THEN /\ tx + n <= QueueCap
            /\ tx' = tx + n
            /\ last' = WithLen(Result("Write", i, NoError, n, ZeroConfig, FALSE, NoHandle, 1,
                                      ports[i].closed, FALSE), len)
       ELSE /\ n = 0
            /\ last' = WithLen(Result("Write", i, "EBADF", FailedCount(build), ZeroConfig,
                                      FALSE, NoHandle, 1, ports[i].closed, FALSE), len)
            /\ UNCHANGED tx
    /\ UNCHANGED <<build, openHandles, native, ports, arg, rx, waiting, flushed>>

\* ioctl(TCFLSH, TCIOFLUSH): both queues of the driver are emptied.
TCIOFLUSH(in, out) == [rx |-> 0, tx |-> 0]

\* Only the Linux build has Flush.  flushed counts the bytes that were
\* queued before a successful Flush and are still queued after it.
Flush(i) ==
    /\ build = "posix"
    /\ waiting = NoRead
    /\ last' = Result("Flush", i, IF Valid(i) THEN NoError ELSE "EBADF", 0, ZeroConfig,
                      FALSE, NoHandle, 1, ports[i].closed, FALSE)
    /\ IF Valid(i)
       THEN /\ rx' = TCIOFLUSH(rx, tx).rx
            /\ tx' = TCIOFLUSH(rx, tx).tx
            /\ flushed' = [flushed EXCEPT !.rx = rx', !.tx = tx']
       ELSE UNCHANGED <<rx, tx, flushed>>
    /\ UNCHANGED <<build, openHandles, native, ports, arg, waiting>>

\* The line: a byte arrives at the open device, the device sends the byte
\* at the head of its output queue.
Arrive ==
    /\ openHandles # {}
    /\ rx < QueueCap
    /\ rx' = rx + 1
    /\ UNCHANGED <<build, openHandles, native, ports, arg, last, tx, waiting, flushed>>

Transmit ==
    /\ tx > 0
    /\ tx' = tx - 1
    /\ flushed' = [flushed EXCEPT !.tx = IF @ > 0 THEN @ - 1 ELSE 0,
                                  !.sent = @ \/ flushed.tx > 0]
    /\ UNCHANGED <<build, openHandles, native, ports, arg, last, rx, waiting>>

SetConfig(i, cfg, ok1, ok2) ==
    LET out == SetConfigOutcome(build, cfg, native, Valid(i), ok1, ok2)
    IN  /\ waiting = NoRead
        /\ native' = out.native
        /\ last' = Result("SetConfig", i, out.err, 0, ZeroConfig, FALSE, NoHandle,
                          out.ncalls, ports[i].closed, FALSE)
        /\ arg' = cfg
        /\ UNCHANGED <<build, openHandles, ports, queueVars>>

Config(i) ==
    LET out == ConfigOutcome(build, native, Valid(i))
    IN  /\ waiting = NoRead
        /\ last' = Result("Config", i, out.err, 0, out.cfg, FALSE, NoHandle,
                          IF build = "posix" \/ ~Valid(i) THEN 1 ELSE 2, ports[i].closed,
                          last.op = "SetConfig" /\ last.err = NoError /\ last.port = i)
        /\ UNCHANGED <<build, openHandles, native, ports, arg, queueVars>>

\* The validator called on its own.
CheckConfigParam(cfg) ==
    /\ last' = Result("checkConfigParam", 0, checkConfigParam(build, cfg), 0, ZeroConfig,
                      FALSE, NoHandle, 0, FALSE, FALSE)
    /\ arg' = cfg
    /\ UNCHANGED <<build, openHandles, native, ports, queueVars>>

(***************************************************************************)
(* Spec: the life cycle.  The caller opens, uses and closes ports, passing *)
(* Configs from SmallConfigs.                                              *)
(***************************************************************************)
SmallConfigs ==
    {DefaultConfig,
     Cfg(9600, DB7, SB2, PE, Ms(0)),
     Cfg(115200, DB8, SB1, PN, Us(500)),
     Cfg(-1, DB8, SB1_5, PM, Ms(100))}

Init ==
    /\ build \in Builds
    /\ openHandles = {}
    /\ native = InitialNative(build)
    /\ ports = <<>>
    /\ arg = DefaultConfig
    /\ last = Result("init", 0, NoError, 0, ZeroConfig, FALSE, NoHandle, 0, FALSE, FALSE)
    /\ rx = 0 /\ tx = 0
    /\ waiting = NoRead
    /\ flushed = NothingFlushed

Next ==
    \/ \E name \in Names, cfg \in SmallConfigs, ok1 \in BOOLEAN : OpenLinux(name, cfg, ok1)
    \/ \E name \in Names, cfg \in SmallConfigs, h \in Handles \cup {InvalidHandle},
          ok1 \in BOOLEAN, ok2 \in BOOLEAN : OpenWindows(name, cfg, h, ok1, ok2)
    \/ \E i \in 1..Len(ports) : Close(i)
    \/ \E i \in 1..Len(ports), len \in 0..MaxLen, n \in 0..MaxLen :
          n <= len /\ Read(i, len, n)
    \/ \E i \in 1..Len(ports), len \in 0..MaxLen, n \in 0..MaxLen :
          n <= len /\ Write(i, len, n)
    \/ \E i \in 1..Len(ports) : Flush(i)
    \/ \E i \in 1..Len(ports), cfg \in SmallConfigs, ok1 \in BOOLEAN, ok2 \in BOOLEAN :
          \* ok2 is the outcome of a second native call: there is one only on
          \* the Windows build, after a first one that succeeded
          /\ (build = "posix" \/ ~ok1) => ok2
          /\ SetConfig(i, cfg, ok1, ok2)
    \/ \E i \in 1..Len(ports) : Config(i)
    \/ ReadReturn
    \/ Arrive
    \/ Transmit

Spec == Init /\ [][Next]_vars

(***************************************************************************)
(* The Configs the translator and the validator are checked on.            *)
(***************************************************************************)
BaudRates == {-1, 9600, 115200}
DataBitsValues == 4..9
StopBitsValues == {SB1, SB1_5, SB2, 3}
ParityValues == 0..5
Timeouts == {Ms(0), Us(500), Ms(1), Dur(FALSE, 0, 0, 1, 500), Ms(50), Ms(100), Ms(250), Ms(12000), Ms(25500),
             Ms(25600), Ms(30000), NegMs(50), NegMs(100), TwoTo32Ms}

AllConfigs ==
    {Cfg(br, db, sb, pa, to) : br \in BaudRates, db \in DataBitsValues,
                               sb \in StopBitsValues, pa \in ParityValues,
                               to \in Timeouts}

(***************************************************************************)
(* SpecTranslate: one port, opened with DefaultConfig(); the caller holds  *)
(* any Config of AllConfigs, sets it and reads the configuration back.     *)
(***************************************************************************)
InitTranslate ==
    /\ build \in Builds
    /\ openHandles = {FirstHandle}
    /\ native = SetConfigOutcome(build, DefaultConfig, InitialNative(build),
                                 TRUE, TRUE, TRUE).native
    /\ ports = <<Port(FirstHandle, TRUE, FALSE)>>
    /\ arg \in AllConfigs
    /\ last = Result("Open", 1, NoError, 0, ZeroConfig, TRUE, FirstHandle, 2, FALSE, FALSE)
    /\ rx = 0 /\ tx = 0
    /\ waiting = NoRead
    /\ flushed = NothingFlushed

NextTranslate ==
    \/ \E ok1 \in BOOLEAN, ok2 \in BOOLEAN : SetConfig(1, arg, ok1, ok2)
    \/ Config(1)

SpecTranslate == InitTranslate /\ [][NextTranslate]_vars

(***************************************************************************)
(* SpecValidate: the validator on its own, on any Config of AllConfigs.    *)
(***************************************************************************)
InitValidate ==
    /\ build \in Builds
    /\ openHandles = {}
    /\ native = InitialNative(build)
    /\ ports = <<>>
    /\ arg \in AllConfigs
    /\ last = Result("init", 0, NoError, 0, ZeroConfig, FALSE, NoHandle, 0, FALSE, FALSE)
    /\ rx = 0 /\ tx = 0
    /\ waiting = NoRead
    /\ flushed = NothingFlushed

NextValidate == CheckConfigParam(arg)

SpecValidate == InitValidate /\ [][NextValidate]_vars

(***************************************************************************)
(* SpecTransfer: one port, opened with a Config of TransferConfigs; the    *)
(* caller reads, writes and flushes while bytes arrive and are sent.       *)
(***************************************************************************)
TransferConfigs ==
    {DefaultConfig,
     Cfg(9600, DB7, SB2, PE, Ms(0)),
     Cfg(115200, DB8, SB1, PN, Ms(25600))}

InitTransfer ==
    /\ build \in Builds
    /\ openHandles = {FirstHandle}
    /\ arg \in TransferConfigs
    /\ checkConfigParam(build, arg) = NoError
    /\ native = SetConfigOutcome(build, arg, InitialNative(build), TRUE, TRUE, TRUE).native
    /\ ports = <<Port(FirstHandle, TRUE, FALSE)>>
    /\ last = Result("Open", 1, NoError, 0, ZeroConfig, TRUE, FirstHandle,
                     IF build = "posix" THEN 2 ELSE 3, FALSE, FALSE)
    /\ rx = 0 /\ tx = 0
    /\ waiting = NoRead
    /\ flushed = NothingFlushed

NextTransfer ==
    \/ \E len \in 0..MaxLen, n \in 0..MaxLen : n <= len /\ Read(1, len, n)
    \/ ReadReturn
    \/ \E len \in 0..MaxLen, n \in 0..MaxLen : n <= len /\ Write(1, len, n)
    \/ Flush(1)
    \/ Arrive
    \/ Transmit

SpecTransfer == InitTransfer /\ [][NextTransfer]_vars

(***************************************************************************)
(* The properties.                                                         *)
(***************************************************************************)
FieldErrors == {"BaudRate", "DataBits", "StopBits", "Parity", "Timeout"}
PortOps == {"Read", "Write", "Flush", "SetConfig", "Config", "Close"}
LegalDataBits == {DB5, DB6, DB7, DB8}
LegalStopBits(b) == IF b = "posix" THEN {SB1, SB2} ELSE {SB1, SB1_5, SB2}
LegalParity(b) == IF b = "posix" THEN {PN, PO, PE} ELSE {PN, PO, PE, PM, PS}

\* timeout >= 100 ms
AtLeastGranularity(d) == ~d.neg /\ (d.w2 > 0 \/ d.w1 > 0 \/ d.w0 >= deciseconds)
\* min(floor(timeout / 100 ms), 255) for a timeout >= 0
SaturatedUnits(d) ==
    LET q == DeciQuot(d)
    IN  IF q.w2 > 0 \/ q.w1 > 0 \/ q.w0 > Byte - 1 THEN Byte - 1 ELSE q.w0

\* C1: when Open acquired a native handle and returns an error, that handle
\* is no longer open when Open returns.
C1_FailedOpenLeavesNoHandle ==
    (last.op = "Open" /\ last.err # NoError /\ last.acquired # NoHandle)
        => last.acquired \notin openHandles

\* C2: every Read, Write, Flush, SetConfig, Config and Close on a port
\* that Open returned without error and on which the caller called Close
\* before returns a non-nil error.
C2_ClosedIsTerminal ==
    (last.op \in PortOps /\ last.closedBefore /\ ports[last.port].opened)
        => last.err # NoError

\* C3: on the Linux build, Config() right after a successful SetConfig(cfg)
\* with legal dataBits, stopBits and parity returns cfg's dataBits, stopBits,
\* parity and baudRate.
C3_PosixRoundTrip ==
    (/\ build = "posix"
     /\ last.op = "Config" /\ last.err = NoError /\ last.fresh
     /\ arg.DataBits \in LegalDataBits
     /\ arg.StopBits \in LegalStopBits("posix")
     /\ arg.Parity \in LegalParity("posix"))
        => /\ last.cfg.DataBits = arg.DataBits
           /\ last.cfg.StopBits = arg.StopBits
           /\ last.cfg.Parity = arg.Parity
           /\ last.cfg.BaudRate = arg.BaudRate

\* C4: on the Linux build, a successful SetConfig with a timeout >= 100 ms
\* stores VMIN = 0 and VTIME = min(floor(timeout / 100 ms), 255), and Config()
\* right after it returns the timeout VTIME x 100 ms.
C4_PosixTimeoutSaturates ==
    /\ (build = "posix" /\ last.op = "SetConfig" /\ last.err = NoError
        /\ AtLeastGranularity(arg.Timeout))
           => (native.VMIN = 0 /\ native.VTIME = SaturatedUnits(arg.Timeout))
    /\ (build = "posix" /\ last.op = "Config" /\ last.err = NoError /\ last.fresh
        /\ AtLeastGranularity(arg.Timeout))
           => last.cfg.Timeout = Ms(SaturatedUnits(arg.Timeout) * deciseconds)

\* C5: on the Linux build, a successful SetConfig with a timeout < 100 ms
\* (zero and negative ones included) stores VMIN = 1 and VTIME = 0, and no
\* successful SetConfig stores VMIN = 0 with VTIME = 0.
C5_PosixSubGranularityBlocks ==
    (build = "posix" /\ last.op = "SetConfig" /\ last.err = NoError)
        => /\ ~AtLeastGranularity(arg.Timeout) => (native.VMIN = 1 /\ native.VTIME = 0)
           /\ ~(native.VMIN = 0 /\ native.VTIME = 0)

\* C6: a SetConfig whose Config the validator rejects returns the
\* validator's error, makes no native call and leaves the device's native
\* configuration, and so what Config() reads, as it was.
C6_RejectedSetConfigChangesNothing ==
    [][(last'.op = "SetConfig" /\ checkConfigParam(build, arg') # NoError)
          => /\ last'.err = checkConfigParam(build, arg')
             /\ last'.ncalls = 0
             /\ native' = native
             /\ ConfigOutcome(build, native', TRUE) = ConfigOutcome(build, native, TRUE)]_vars

\* C6 witness: a rejected SetConfig on an open port whose device had been
\* configured before.
C6_Witness ==
    /\ last.op = "SetConfig" /\ last.err \in FieldErrors /\ last.ncalls = 0
    /\ last.port > 0 /\ Valid(last.port)
    /\ native # InitialNative(build)

\* C7: Open returns a port and no error, or an error and no port.
C7_OpenPortXorError ==
    last.op = "Open" => (last.sp <=> last.err = NoError)

\* C8 as claimed: a Config with illegal dataBits is rejected with the error
\* that names DataBits, whatever the other fields are.
C8_DataBitsErrorAlways ==
    (last.op = "checkConfigParam" /\ arg.DataBits \notin LegalDataBits)
        => last.err = "DataBits"

\* C8 as amended: a Config with illegal dataBits is always rejected, and the
\* error names DataBits whenever baudRate >= 0, whatever stopBits, parity
\* and timeout are.
C8_DataBitsErrorUnlessBaudRate ==
    (last.op = "checkConfigParam" /\ arg.DataBits \notin LegalDataBits)
        => /\ last.err \in FieldErrors
           /\ arg.BaudRate >= 0 => last.err = "DataBits"
           /\ arg.BaudRate < 0 => last.err = "BaudRate"

\* C8 witness: illegal dataBits together with illegal stopBits and parity.
C8_Witness ==
    /\ last.op = "checkConfigParam" /\ last.err = "DataBits"
    /\ arg.DataBits \notin LegalDataBits /\ arg.BaudRate >= 0
    /\ arg.StopBits \notin LegalStopBits("windows")
    /\ arg.Parity \notin LegalParity("windows")

FieldsLegal(b, cfg) ==
    /\ cfg.BaudRate >= 0
    /\ cfg.DataBits \in LegalDataBits
    /\ cfg.StopBits \in LegalStopBits(b)
    /\ cfg.Parity \in LegalParity(b)

\* C9 as claimed: the validator accepts a Config exactly when baudRate >= 0
\* and dataBits, stopBits and parity are in the platform's legal sets.
C9_AcceptsIffFieldsLegal ==
    last.op = "checkConfigParam" => (last.err = NoError <=> FieldsLegal(build, arg))

\* C9 as amended: the validator accepts a Config exactly when baudRate >= 0,
\* dataBits, stopBits and parity are in the platform's legal sets and, on
\* the Windows build, the timeout is zero or at least one millisecond long.
C9_AcceptsIffFieldsAndTimeoutLegal ==
    last.op = "checkConfigParam"
        => (last.err = NoError
              <=> /\ FieldsLegal(build, arg)
                  /\ build = "windows" => (DurIsZero(arg.Timeout) \/ ~MsIsZero(arg.Timeout)))

\* C9 witness: 1.5 stop bits with MARK parity, accepted by the Windows build.
C9_Witness ==
    /\ build = "windows" /\ last.op = "checkConfigParam" /\ last.err = NoError
    /\ arg.StopBits = SB1_5 /\ arg.Parity = PM

AllZeroTimeouts == CommTimeouts(U32Zero, U32Zero, U32Zero, U32Zero, U32Zero)

\* C10: on the Windows build, a SetConfig with a non-zero timeout that is
\* not turned down for another field or by a failing native call either
\* returns the timeout error or applies a timeout block with a non-zero
\* read-total-timeout-constant and the maximum read-interval and
\* read-total-multiplier; the all-zero block is applied only for timeout 0.
C10_NonZeroTimeoutNeverNoTimeout ==
    (build = "windows" /\ last.op = "SetConfig" /\ ~DurIsZero(arg.Timeout)
     /\ last.err \in {NoError, "Timeout"})
        => \/ last.err = "Timeout"
           \/ /\ native.timeouts.ReadTotalTimeoutConstant # U32Zero
              /\ native.timeouts.ReadIntervalTimeout = MaxUint32
              /\ native.timeouts.ReadTotalTimeoutMultiplier = MaxUint32
              /\ native.timeouts # AllZeroTimeouts

\* C14: every Read(b) on a port that Open returned without error returns a
\* count n with 0 <= n <= len(b), whether or not it also returns an error.
C14_ReadCountInRange ==
    (last.op = "Read" /\ ports[last.port].opened)
        => (0 <= last.n /\ last.n <= last.len)

\* The native configuration that cfg alone translates to.
ForwardTranslation(b, cfg) ==
    IF b = "posix" THEN termios2Of(cfg)
    ELSE [dcb |-> dcbOf(cfg), timeouts |-> commTimeoutsOf(cfg)]

\* C15: a SetConfig on an open port (one that Open returned without error
\* and whose handle is open) that returns an error leaves the
\* device's native configuration, and so what Config() reads, as it was
\* before the call; one that returns no error leaves the forward translation
\* of its cfg, whatever the configuration was before.
C15_SetConfigAllOrNothing ==
    [][(last'.op = "SetConfig" /\ Valid(last'.port) /\ ports[last'.port].opened)
          => IF last'.err # NoError
             THEN /\ native' = native
                  /\ ConfigOutcome(build, native', TRUE) = ConfigOutcome(build, native, TRUE)
             ELSE native' = ForwardTranslation(build, arg')]_vars

\* A Duration rounded down to whole milliseconds (the Durations of the
\* model that are not whole milliseconds are positive).
WholeMilliseconds(d) == [d EXCEPT !.us = 0]

\* C12: on the Windows build, Config() right after a successful SetConfig(cfg)
\* returns cfg's baudRate, dataBits, stopBits and parity, and cfg's timeout
\* rounded down to whole milliseconds.
C12_WindowsRoundTrip ==
    (build = "windows" /\ last.op = "Config" /\ last.err = NoError /\ last.fresh)
        => /\ last.cfg.BaudRate = arg.BaudRate
           /\ last.cfg.DataBits = arg.DataBits
           /\ last.cfg.StopBits = arg.StopBits
           /\ last.cfg.Parity = arg.Parity
           /\ last.cfg.Timeout = WholeMilliseconds(arg.Timeout)

\* C11: on the Windows build, a Read on a port that was opened with
\* timeout 0 returns at once with the bytes already queued: the caller is
\* never left waiting in it for bytes to arrive.
C11_ZeroTimeoutReadReturnsAtOnce ==
    (/\ build = "windows"
     /\ last.op = "Open" /\ last.err = NoError /\ DurIsZero(arg.Timeout))
        => waiting = NoRead

\* C13: after a successful Flush no byte that was queued for reading before
\* it is still queued or returned by a Read, and no byte that was queued for
\* sending before it is still queued or transmitted; and, on a port opened
\* with a timeout of at least 100 ms, the Read that follows a successful
\* Flush with nothing received in between returns 0 bytes and no error.
C13_FlushDiscardsBothQueues ==
    [][/\ flushed' = NothingFlushed
       /\ (/\ last.op = "Flush" /\ last.err = NoError /\ rx = 0
           /\ AtLeastGranularity(arg.Timeout)
           /\ (last'.op = "Read" \/ waiting' # NoRead))
              => /\ waiting' = NoRead
                 /\ last'.n = 0 /\ last'.err = NoError]_vars

===========================================================================
